---- MODULE Spec2Model ----
(***************************************************************************)
(* A model of onotes (src/notes.py): the note/folder store NoteData, its   *)
(* persisted file, and the part of the NotesApp shell that drives it.      *)
(***************************************************************************)
EXTENDS Integers, Sequences, FiniteSets, TLC

(***************************************************************************)
(* Bounds of the model.                                                    *)
(***************************************************************************)
\* at most this many notes are held at once (guard of add_note)
MaxNotes == 2
\* the clock readings are 0..MaxClock (guards of the timed operations)
MaxClock == 2
\* a word of a line of the editor overruns MAX_LINE_LENGTH by at most this
MaxExtra == 1
\* the editor handles at most this many events (guards of its handlers)
MaxEvents == 2

(***************************************************************************)
(* Program constants.                                                      *)
(***************************************************************************)
ALL_NOTES == "All Notes"
PERSONAL == "Personal"
WORK == "Work"
UNTITLED == "Untitled Note"
\* NoteEditor.MAX_LINE_LENGTH
MAX_LINE_LENGTH == 80

\* what the user types in the title field and in the folder name dialog
TitleInputs == {" ", "T"}
FolderInputs == {"", " Work", PERSONAL}
\* what the user makes of the editor's text: a text is the sequence of its
\* characters
Contents == {<<>>, <<"c">>}
\* folder names given to the operations: the three seed names (each of the
\* last two is absent from the folder sequence once deleted)
FolderNames == {ALL_NOTES, PERSONAL, WORK}
\* names given to add_folder: those and the empty string
FolderArgs == FolderNames \cup {""}
\* <<title, content>> pairs given to add_note and update_note
Texts == {<<"", <<>>>>, <<"T", <<"c">>>>}
\* note ids given to update_note and delete_note: one more than can be held,
\* so that an id no note has always exists
NoteIds == 1..(MaxNotes + 1)

VARIABLES
    data,       \* NoteData.data: [folders: Seq(STRING), notes: Seq(note)]
    file,       \* NOTES_FILE: [exists |-> FALSE] or [exists |-> TRUE, doc |-> ...]
    clock,      \* the last value datetime.now() returned
    op,         \* the last call of a NoteData method: [name |-> ..., arguments]
                \* (the read a refresh of the note list makes is not recorded)
    ret,        \* what that call returned
    wrote,      \* whether that call wrote NOTES_FILE (called save)
    assigned,   \* the ids add_note has assigned in this session
    current_folder,   \* NotesApp.current_folder
    current_note_id,  \* NoteEditor.current_note_id, NoId for None
    title_input,      \* NotesApp.title_input.value
    text,             \* NoteEditor.text
    note_list,        \* the notes NoteListView shows, first row first
    cursor,           \* NoteEditor.cursor_location: <<row, column>>, from 0
    _wrapping,        \* NoteEditor._wrapping
    event,            \* the last event the editor handled, with the text and
                      \* the cursor it found
    events,           \* how many events the editor has handled
    auth,             \* AUTH_FILE: [exists |-> FALSE] or
                      \* [exists |-> TRUE, doc |-> ...]
    pm,               \* the last call of a PasswordManager method, with its
                      \* argument and what it returned
    passphrase,       \* <<the password of the last set_password>>, <<>>
                      \* before the first
    screen,           \* what the application shows: "password" (the
                      \* PasswordScreen over the panels), "main", "exited"
    folder_list,      \* the rows FolderList shows
    error_message     \* the text of the #error-message label of PasswordScreen

store_vars == <<data, file, clock, op, ret, wrote, assigned>>
editor_vars == <<cursor, _wrapping, event, events>>
gate_vars == <<auth, pm, passphrase, screen, error_message>>
shell_vars == <<current_folder, current_note_id, title_input, text,
                note_list, cursor, _wrapping, event, events,
                auth, pm, passphrase, screen, folder_list, error_message>>
vars == <<data, file, clock, op, ret, wrote, assigned,
          current_folder, current_note_id, title_input, text, note_list,
          cursor, _wrapping, event, events,
          auth, pm, passphrase, screen, folder_list, error_message>>

(***************************************************************************)
(* Python values and helpers.                                              *)
(***************************************************************************)
None == [tag |-> "None"]
Bool(b) == [tag |-> "bool", val |-> b]
NoteRef(n) == [tag |-> "note", note |-> n]
NoteList(s) == [tag |-> "notes", notes |-> s]

\* None as the value of NoteEditor.current_note_id (note ids are positive)
NoId == 0

\* x in list
In(x, s) == \E i \in 1..Len(s) : s[i] = x

\* list.remove(x): removes the first occurrence of x
RECURSIVE Remove(_, _)
Remove(s, x) ==
    IF s = <<>> THEN <<>>
    ELSE IF Head(s) = x THEN Tail(s)
    ELSE <<Head(s)>> \o Remove(Tail(s), x)

\* str.strip, on the strings the user types
strip(s) == CASE s = " " -> ""
              [] s = " Work" -> WORK
              [] OTHER -> s

\* reversed(list)
Reverse(s) == [i \in 1..Len(s) |-> s[Len(s) + 1 - i]]

\* title or "Untitled Note"
OrUntitled(title) == IF title = "" THEN UNTITLED ELSE title

\* the value load() returns when NOTES_FILE does not exist
DefaultData == [folders |-> <<ALL_NOTES, PERSONAL, WORK>>, notes |-> <<>>]

(***************************************************************************)
(* JSON: the document json.dump writes for NoteData.data and the value     *)
(* json.load makes of a document.                                          *)
(***************************************************************************)
json_string(s) == [json |-> "string", value |-> s]
json_number(n) == [json |-> "number", value |-> n]
json_array(items) == [json |-> "array", items |-> items]
\* members: a sequence of <<name, value>>, in the order written
json_object(members) == [json |-> "object", members |-> members]

\* a note dict, its keys in the order add_note inserts them
json_of_note(note) ==
    json_object(<< <<"id", json_number(note.id)>>,
                   <<"title", json_string(note.title)>>,
                   <<"content", json_string(note.content)>>,
                   <<"folder", json_string(note.folder)>>,
                   <<"created", json_string(note.created)>>,
                   <<"modified", json_string(note.modified)>> >>)

\* json.dump with the "modified" key left out of every note
json_dump_without_modified(d) ==
    json_object(<<
        <<"folders", json_array([i \in 1..Len(d.folders) |->
                                    json_string(d.folders[i])])>>,
        <<"notes", json_array([i \in 1..Len(d.notes) |->
            json_object(SubSeq(json_of_note(d.notes[i]).members, 1, 5))])>> >>)

\* json.dump(self.data, f, indent=2)
json_dump(d) ==
    json_object(<<
        <<"folders", json_array([i \in 1..Len(d.folders) |->
                                    json_string(d.folders[i])])>>,
        <<"notes", json_array([i \in 1..Len(d.notes) |->
                                    json_of_note(d.notes[i])])>> >>)

\* json.load(f): an object is a dict of its members (the last of a name
\* counts), an array a list, a string or a number its value
RECURSIVE json_load(_)
json_load(doc) ==
    IF doc.json = "object"
    THEN LET m == doc.members
             last(k) == CHOOSE i \in 1..Len(m) :
                           /\ m[i][1] = k
                           /\ \A j \in (i + 1)..Len(m) : m[j][1] # k
         IN [k \in {m[i][1] : i \in 1..Len(m)} |-> json_load(m[last(k)][2])]
    ELSE IF doc.json = "array"
    THEN [i \in 1..Len(doc.items) |-> json_load(doc.items[i])]
    ELSE doc.value

\* NoteData.load
load(f) == IF f.exists THEN json_load(f.doc) ELSE DefaultData

\* NoteData.save: the file written from d
save(d) == [exists |-> TRUE, doc |-> json_dump(d)]

(***************************************************************************)
(* PasswordManager: the password file and the answers read from it.        *)
(***************************************************************************)
json_boolean(b) == [json |-> "boolean", value |-> b]

\* dict.get(key, default)
get(d, key, default) == IF key \in DOMAIN d THEN d[key] ELSE default

\* the passwords tried: empty, one letter, another, another case, a
\* trailing space, a longer one
Passwords == {"", "a", "b", "A", "a ", "ab"}

\* hashlib.sha256(password.encode()).hexdigest(), its first eight digits
hash_password(password) ==
    CASE password = "" -> "e3b0c442"
      [] password = "a" -> "ca978112"
      [] password = "b" -> "3e23e816"
      [] password = "A" -> "559aead0"
      [] password = "a " -> "6583dcd6"
      [] password = "ab" -> "fb8e20fc"

\* PasswordManager.password_exists
password_exists == auth.exists

\* PasswordManager.is_password_enabled
is_password_enabled ==
    IF ~password_exists THEN FALSE
    ELSE get(json_load(auth.doc), "enabled", FALSE)

\* verify_password answering True when there is no password file
verify_password_open_without_file(password) ==
    IF ~password_exists THEN TRUE
    ELSE LET d == json_load(auth.doc)
         IN IF ~get(d, "enabled", FALSE) THEN TRUE
            ELSE hash_password(password) = get(d, "password_hash", None)

\* PasswordManager.verify_password
verify_password(password) ==
    IF ~password_exists THEN FALSE
    ELSE LET d == json_load(auth.doc)
         IN IF ~get(d, "enabled", FALSE) THEN TRUE
            ELSE hash_password(password) = get(d, "password_hash", None)

\* the file set_password writes
with_password(password) ==
    [exists |-> TRUE,
     doc |-> json_object(<<
         <<"password_hash", json_string(hash_password(password))>>,
         <<"enabled", json_boolean(TRUE)>> >>)]

\* the file skip_password writes
without_password ==
    [exists |-> TRUE,
     doc |-> json_object(<< <<"enabled", json_boolean(FALSE)>> >>)]

\* PasswordManager.set_password
set_password(password) ==
    /\ auth' = with_password(password)
    /\ pm' = [name |-> "set_password", password |-> password]
    /\ passphrase' = <<password>>

\* PasswordManager.skip_password
skip_password ==
    /\ auth' = without_password
    /\ pm' = [name |-> "skip_password"]
    /\ UNCHANGED passphrase

\* a call of one of the three methods that only read the file
ask(name, password, answer) ==
    /\ pm' = [name |-> name, password |-> password, ret |-> answer]
    /\ UNCHANGED <<auth, passphrase>>

(***************************************************************************)
(* Text: a str is the sequence of its characters; indices and slices are   *)
(* Python's, counted from 0.                                               *)
(***************************************************************************)
Min(a, b) == IF a < b THEN a ELSE b
Max(a, b) == IF a > b THEN a ELSE b

\* what str.strip, lstrip and rstrip remove
Whitespace == {" ", "\t", "\n"}

\* s[a + 1:], the character at a left out
slice_after(s, a) == SubSeq(s, a + 2, Len(s))

\* s[a:b] and s[a:]
slice(s, a, b) == SubSeq(s, a + 1, Min(b, Len(s)))
slice_from(s, a) == SubSeq(s, a + 1, Len(s))

\* text.split('\n')
RECURSIVE split(_)
split(s) ==
    IF \A i \in 1..Len(s) : s[i] # "\n"
    THEN <<s>>
    ELSE LET i == CHOOSE i \in 1..Len(s) :
                     /\ s[i] = "\n"
                     /\ \A j \in 1..(i - 1) : s[j] # "\n"
         IN <<SubSeq(s, 1, i - 1)>> \o split(SubSeq(s, i + 1, Len(s)))

\* '\n'.join(lines)
RECURSIVE join(_)
join(lines) ==
    IF Len(lines) = 0 THEN <<>>
    ELSE IF Len(lines) = 1 THEN lines[1]
    ELSE lines[1] \o <<"\n">> \o join(Tail(lines))

\* s.find(ch, start, end): the lowest index in start..end-1, or -1
find(s, ch, start, end) ==
    LET I == {i \in start..(Min(end, Len(s)) - 1) : s[i + 1] = ch} IN
    IF I = {} THEN -1 ELSE CHOOSE i \in I : \A j \in I : i <= j

\* s.rfind(ch, start, end): the highest index in start..end-1, or -1
rfind(s, ch, start, end) ==
    LET I == {i \in start..(Min(end, Len(s)) - 1) : s[i + 1] = ch} IN
    IF I = {} THEN -1 ELSE CHOOSE i \in I : \A j \in I : i >= j

\* a strip that removes nothing
unstripped(s) == s

\* s.rstrip()
rstrip(s) ==
    LET K == {k \in 1..Len(s) : s[k] \notin Whitespace} IN
    IF K = {} THEN <<>>
    ELSE SubSeq(s, 1, CHOOSE k \in K : \A j \in K : k >= j)

\* s.lstrip()
lstrip(s) ==
    LET K == {k \in 1..Len(s) : s[k] \notin Whitespace} IN
    IF K = {} THEN <<>>
    ELSE SubSeq(s, CHOOSE k \in K : \A j \in K : k <= j, Len(s))

\* lines with lines[index] = first and second inserted after it
\* (lines[i] = first_part; lines.insert(i + 1, second_part))
replaced_by_two(lines, index, first, second) ==
    SubSeq(lines, 1, index) \o <<first, second>>
        \o SubSeq(lines, index + 2, Len(lines))

(***************************************************************************)
(* NoteData.__init__: data is what load() reads.  The file is absent on a  *)
(* first run, or holds what an earlier session left in an empty store.     *)
(***************************************************************************)
\* The shell is as NotesApp.__init__, compose and on_mount leave it with no
\* password gate: the "All Notes" view, the editor hidden and empty.
\* no credential file, and the panels shown
NoGate ==
    /\ auth = [exists |-> FALSE]
    /\ pm = [name |-> "none"]
    /\ passphrase = <<>>
    /\ screen = "main"
    /\ folder_list = data.folders
    /\ error_message = ""

Init ==
    /\ file \in {[exists |-> FALSE], save(DefaultData)}
    /\ data = load(file)
    /\ clock = 0
    /\ op = [name |-> "init"]
    /\ ret = None
    /\ wrote = FALSE
    /\ assigned = {}
    /\ current_folder = ALL_NOTES
    /\ current_note_id = NoId
    /\ title_input = ""
    /\ text = <<>>
    /\ note_list = <<>>
    /\ cursor = <<0, 0>>
    /\ _wrapping = FALSE
    /\ event = [name |-> "none"]
    /\ events = 0
    /\ NoGate

(***************************************************************************)
(* NoteData.add_note                                                       *)
(***************************************************************************)
\* the id add_note gives a new note
next_id(notes) == Len(notes) + 1

\* t1 and t2 are what the two calls of datetime.now() return
add_note(title, content, folder, t1, t2) ==
    /\ Len(data.notes) < MaxNotes
    /\ LET note == [id |-> next_id(data.notes),
                     title |-> OrUntitled(title),
                     content |-> content,
                     folder |-> folder,
                     created |-> t1,
                     modified |-> t2]
            d == [data EXCEPT !.notes = Append(@, note)]
        IN /\ data' = d
           /\ file' = save(d)
           /\ clock' = t2
           /\ ret' = NoteRef(note)
           /\ assigned' = assigned \cup {note.id}
    /\ wrote' = TRUE
    /\ op' = [name |-> "add_note", title |-> title, content |-> content,
              folder |-> folder]

(***************************************************************************)
(* NoteData.update_note: the first note with the id is updated             *)
(***************************************************************************)
\* index of the first note with this id, 0 when there is none
first_with_id(notes, note_id) ==
    IF \E i \in 1..Len(notes) : notes[i].id = note_id
    THEN CHOOSE i \in 1..Len(notes) :
            /\ notes[i].id = note_id
            /\ \A j \in 1..(i - 1) : notes[j].id # note_id
    ELSE 0

\* update_note with save() called after the loop, found or not
update_note_saves_always(note_id, title, content, t) ==
    LET i == first_with_id(data.notes, note_id)
        d == IF i = 0 THEN data
             ELSE [data EXCEPT !.notes[i] =
                      [@ EXCEPT !.title = OrUntitled(title),
                                !.content = content,
                                !.modified = t]]
    IN /\ data' = d
       /\ file' = save(d)
       /\ clock' = IF i = 0 THEN clock ELSE t
       /\ ret' = IF i = 0 THEN None ELSE NoteRef(d.notes[i])
       /\ wrote' = TRUE
       /\ op' = [name |-> "update_note", note_id |-> note_id,
                 title |-> title, content |-> content]
       /\ UNCHANGED assigned

\* t is what datetime.now() returns
update_note(note_id, title, content, t) ==
    LET i == first_with_id(data.notes, note_id) IN
    /\ IF i # 0
       THEN LET note == [data.notes[i] EXCEPT !.title = OrUntitled(title),
                                              !.content = content,
                                              !.modified = t]
                d == [data EXCEPT !.notes[i] = note]
            IN /\ data' = d
               /\ file' = save(d)
               /\ clock' = t
               /\ ret' = NoteRef(note)
               /\ wrote' = TRUE
       ELSE /\ ret' = None
            /\ wrote' = FALSE
            /\ UNCHANGED <<data, file, clock>>
    /\ op' = [name |-> "update_note", note_id |-> note_id, title |-> title,
              content |-> content]
    /\ UNCHANGED assigned

(***************************************************************************)
(* NoteData.delete_note: every note with the id goes, and the file is      *)
(* written whether or not one was found                                    *)
(***************************************************************************)
\* delete_note taking the id for the position of the note
without_position(notes, note_id) ==
    IF note_id \in 1..Len(notes)
    THEN SubSeq(notes, 1, note_id - 1) \o SubSeq(notes, note_id + 1, Len(notes))
    ELSE notes

without_id(notes, note_id) == SelectSeq(notes, LAMBDA n : n.id # note_id)

\* delete_note with the call of save() left out
delete_note_unsaved(note_id) ==
    LET d == [data EXCEPT !.notes = without_id(@, note_id)] IN
    /\ data' = d
    /\ file' = file
    /\ ret' = None
    /\ wrote' = FALSE
    /\ op' = [name |-> "delete_note", note_id |-> note_id]
    /\ UNCHANGED <<clock, assigned>>

delete_note(note_id) ==
    LET d == [data EXCEPT !.notes = without_id(@, note_id)] IN
    /\ data' = d
    /\ file' = save(d)
    /\ ret' = None
    /\ wrote' = TRUE
    /\ op' = [name |-> "delete_note", note_id |-> note_id]
    /\ UNCHANGED <<clock, assigned>>

(***************************************************************************)
(* NoteData.get_notes_by_folder                                            *)
(***************************************************************************)
\* get_notes_by_folder without the case of the virtual folder
notes_by_folder_no_virtual(notes, folder) ==
    SelectSeq(notes, LAMBDA n : n.folder = folder)

notes_by_folder(notes, folder) ==
    IF folder = ALL_NOTES THEN notes
    ELSE SelectSeq(notes, LAMBDA n : n.folder = folder)

get_notes_by_folder(folder) ==
    /\ ret' = NoteList(notes_by_folder(data.notes, folder))
    /\ wrote' = FALSE
    /\ op' = [name |-> "get_notes_by_folder", folder |-> folder]
    /\ UNCHANGED <<data, file, clock, assigned>>

(***************************************************************************)
(* NoteData.add_folder                                                     *)
(***************************************************************************)
\* add_folder without the test for a name already present
add_folder_no_duplicate_test(folder_name) ==
    /\ IF folder_name # ""
       THEN LET d == [data EXCEPT !.folders = Append(@, folder_name)] IN
            /\ data' = d
            /\ file' = save(d)
            /\ ret' = Bool(TRUE)
            /\ wrote' = TRUE
       ELSE /\ ret' = Bool(FALSE)
            /\ wrote' = FALSE
            /\ UNCHANGED <<data, file>>
    /\ op' = [name |-> "add_folder", folder |-> folder_name]
    /\ UNCHANGED <<clock, assigned>>

add_folder(folder_name) ==
    /\ IF folder_name # "" /\ ~In(folder_name, data.folders)
       THEN LET d == [data EXCEPT !.folders = Append(@, folder_name)] IN
            /\ data' = d
            /\ file' = save(d)
            /\ ret' = Bool(TRUE)
            /\ wrote' = TRUE
       ELSE /\ ret' = Bool(FALSE)
            /\ wrote' = FALSE
            /\ UNCHANGED <<data, file>>
    /\ op' = [name |-> "add_folder", folder |-> folder_name]
    /\ UNCHANGED <<clock, assigned>>

(***************************************************************************)
(* NoteData.delete_folder                                                  *)
(***************************************************************************)
\* the notes of folder_name moved to "All Notes", as the docstring of
\* delete_folder has it
reassign_to_all_notes(notes, folder_name) ==
    [i \in 1..Len(notes) |->
        IF notes[i].folder = folder_name
        THEN [notes[i] EXCEPT !.folder = ALL_NOTES]
        ELSE notes[i]]

\* the notes of folder_name are given the folder "Personal"
reassign(notes, folder_name) ==
    [i \in 1..Len(notes) |->
        IF notes[i].folder = folder_name
        THEN [notes[i] EXCEPT !.folder = PERSONAL]
        ELSE notes[i]]

\* delete_folder without the test for "All Notes"
delete_folder_unguarded(folder_name) ==
    /\ IF In(folder_name, data.folders)
       THEN LET d == [folders |-> Remove(data.folders, folder_name),
                      notes |-> reassign(data.notes, folder_name)] IN
            /\ data' = d
            /\ file' = save(d)
            /\ ret' = Bool(TRUE)
            /\ wrote' = TRUE
       ELSE /\ ret' = Bool(FALSE)
            /\ wrote' = FALSE
            /\ UNCHANGED <<data, file>>
    /\ op' = [name |-> "delete_folder", folder |-> folder_name]
    /\ UNCHANGED <<clock, assigned>>

delete_folder(folder_name) ==
    /\ IF folder_name = ALL_NOTES
       THEN /\ ret' = Bool(FALSE)
            /\ wrote' = FALSE
            /\ UNCHANGED <<data, file>>
       ELSE IF In(folder_name, data.folders)
       THEN LET d == [folders |-> Remove(data.folders, folder_name),
                      notes |-> reassign(data.notes, folder_name)] IN
            /\ data' = d
            /\ file' = save(d)
            /\ ret' = Bool(TRUE)
            /\ wrote' = TRUE
       ELSE /\ ret' = Bool(FALSE)
            /\ wrote' = FALSE
            /\ UNCHANGED <<data, file>>
    /\ op' = [name |-> "delete_folder", folder |-> folder_name]
    /\ UNCHANGED <<clock, assigned>>

(***************************************************************************)
(* NoteEditor: the reflow of the line the cursor is on                     *)
(***************************************************************************)
\* the editor as its methods see it
Editor(t, c, w) == [text |-> t, cursor |-> c, wrapping |-> w]

\* TextArea.load_text: the text is replaced and the cursor goes home
load_text(ed, new_text) == [ed EXCEPT !.text = new_text, !.cursor = <<0, 0>>]

\* a guard that lets a call in while a reflow is in progress
never_in_progress(ed) == FALSE

\* if self._wrapping: return
in_progress(ed) == ed.wrapping

\* a split at the first space of the line instead of the last within range
wrap_point_at_first_space(current_line) ==
    LET wrap_point == find(current_line, " ", 0, MAX_LINE_LENGTH) IN
    IF wrap_point = -1 THEN MAX_LINE_LENGTH ELSE wrap_point

\* wrap_point: the last space among the first MAX_LINE_LENGTH characters,
\* MAX_LINE_LENGTH when there is none
wrap_point_of(current_line) ==
    LET wrap_point == rfind(current_line, " ", 0, MAX_LINE_LENGTH) IN
    IF wrap_point = -1 THEN MAX_LINE_LENGTH ELSE wrap_point

new_cursor_col(old_cursor_col, wrap_point, spaces_stripped, first_part, second_part) ==
    IF old_cursor_col > Len(first_part)
    THEN Max(0, old_cursor_col - wrap_point - spaces_stripped)
    ELSE Len(second_part)

\* NoteEditor._check_and_wrap_current_line.  notified: load_text delivers
\* its change notification at once, to on_text_area_changed, which calls
\* this method again.
RECURSIVE check_and_wrap_current_line(_, _)
check_and_wrap_current_line(ed, notified) ==
    IF in_progress(ed) THEN ed ELSE
    LET current_line_index == ed.cursor[1]
        lines == split(ed.text)
    IN
    IF current_line_index >= Len(lines) THEN ed ELSE
    LET current_line == lines[current_line_index + 1] IN
    IF Len(current_line) > MAX_LINE_LENGTH
    THEN LET wrap_point == wrap_point_of(current_line)
             first_part == rstrip(slice(current_line, 0, wrap_point))
             second_part == lstrip(slice_from(current_line, wrap_point))
             old_cursor_col == ed.cursor[2]
             spaces_stripped ==
                 Len(slice_from(current_line, wrap_point)) - Len(second_part)
             col == new_cursor_col(old_cursor_col, wrap_point,
                                   spaces_stripped, first_part, second_part)
             new_text == join(replaced_by_two(lines, current_line_index,
                                              first_part, second_part))
             loaded == load_text([ed EXCEPT !.wrapping = TRUE], new_text)
             settled == IF notified
                        THEN check_and_wrap_current_line(loaded, notified)
                        ELSE loaded
         IN [settled EXCEPT !.cursor = <<current_line_index + 1, col>>,
                            !.wrapping = FALSE]
    ELSE ed

(***************************************************************************)
(* NotesApp: the handlers of the shell.  A modal dialog (folder name,      *)
(* delete confirmation) takes the keys until it is dismissed, so a handler *)
(* and the callback of its dialog are one step, the user's answer an       *)
(* input.                                                                  *)
(***************************************************************************)
\* NoteListView.refresh_notes(folder), after the store has changed
\* FolderList.refresh_folders(self.note_data.data["folders"]); the list it
\* shows is the list of the store
refresh_folders == folder_list' = data'.folders

refresh_notes(folder) ==
    note_list' = Reverse(notes_by_folder(data'.notes, folder))

\* NotesApp.hide_editor, with NoteEditor.clear_editor
hide_editor ==
    /\ current_note_id' = NoId
    /\ text' = <<>>
    /\ cursor' = <<0, 0>>
    /\ title_input' = ""

\* on_list_view_selected, a row of the folder list
select_folder(folder_index) ==
    /\ folder_index \in 1..Len(data.folders)
    /\ current_folder' = data.folders[folder_index]
    /\ note_list' = Reverse(notes_by_folder(data.notes, current_folder'))
    /\ hide_editor
    /\ UNCHANGED <<store_vars, _wrapping, event, events>>

\* on_list_view_selected, a row of the note list: show_editor and load_note.
\* notified: load_text raises a change notification, and
\* on_text_area_changed has handled it.
select_note(row, notified) ==
    /\ row \in 1..Len(note_list)
    /\ current_note_id' = note_list[row].id
    /\ LET loaded == load_text(Editor(text, cursor, _wrapping),
                               note_list[row].content)
           ed == IF notified
                 THEN check_and_wrap_current_line(loaded, notified)
                 ELSE loaded
       IN /\ text' = ed.text
          /\ cursor' = ed.cursor
          /\ _wrapping' = ed.wrapping
    /\ title_input' = note_list[row].title
    /\ UNCHANGED <<store_vars, current_folder, note_list, event, events>>

\* the user edits the title field, shown while a note is loaded
edit_title(typed) ==
    /\ current_note_id # NoId
    /\ title_input' = typed
    /\ UNCHANGED <<store_vars, current_folder, current_note_id, text, note_list,
                   editor_vars>>

\* the user edits the text of the editor, shown while a note is loaded;
\* on_text_area_changed then finds no line longer than MAX_LINE_LENGTH
edit_text(typed) ==
    /\ current_note_id # NoId
    /\ text' = typed
    /\ cursor' = <<0, Len(typed)>>
    /\ UNCHANGED <<store_vars, current_folder, current_note_id, title_input,
                   note_list, _wrapping, event, events>>

\* on_text_area_changed for the editor; notified as in
\* check_and_wrap_current_line
on_text_area_changed(notified) ==
    /\ events < MaxEvents
    /\ LET ed == check_and_wrap_current_line(Editor(text, cursor, _wrapping),
                                             notified)
       IN /\ text' = ed.text
          /\ cursor' = ed.cursor
          /\ _wrapping' = ed.wrapping
    /\ event' = [name |-> "on_text_area_changed", notified |-> notified,
                 text |-> text, cursor |-> cursor]
    /\ events' = events + 1
    /\ UNCHANGED <<store_vars, current_folder, current_note_id, title_input,
                   note_list>>

(***************************************************************************)
(* The keys the editor takes (TextArea, which NoteEditor extends).  A key  *)
(* that changes the text raises a change notification; the step is the     *)
(* change together with on_text_area_changed handling the notification.    *)
(***************************************************************************)
\* s inserted at the cursor (a character typed, a text pasted); the cursor
\* ends behind it
inserted(ed, s) ==
    LET lines == split(ed.text)
        row == ed.cursor[1]
        col == ed.cursor[2]
        line == lines[row + 1]
        pieces == split(s)
    IN [ed EXCEPT
          !.text = join(SubSeq(lines, 1, row)
                        \o <<slice(line, 0, col) \o s \o slice_from(line, col)>>
                        \o SubSeq(lines, row + 2, Len(lines))),
          !.cursor = IF Len(pieces) = 1
                     THEN <<row, col + Len(s)>>
                     ELSE <<row + Len(pieces) - 1, Len(pieces[Len(pieces)])>>]

\* backspace: the character before the cursor goes; at the start of a line
\* the line is joined to the one above
deleted_left(ed) ==
    LET lines == split(ed.text)
        row == ed.cursor[1]
        col == ed.cursor[2]
        line == lines[row + 1]
    IN IF col > 0
       THEN [ed EXCEPT
               !.text = join(SubSeq(lines, 1, row)
                             \o <<slice(line, 0, col - 1) \o slice_from(line, col)>>
                             \o SubSeq(lines, row + 2, Len(lines))),
               !.cursor = <<row, col - 1>>]
       ELSE IF row > 0
       THEN [ed EXCEPT
               !.text = join(SubSeq(lines, 1, row - 1)
                             \o <<lines[row] \o line>>
                             \o SubSeq(lines, row + 2, Len(lines))),
               !.cursor = <<row - 1, Len(lines[row])>>]
       ELSE ed

\* the editor after a key has changed it to changed
edited(name, changed, notified) ==
    /\ current_note_id # NoId
    /\ events < MaxEvents
    /\ LET ed == check_and_wrap_current_line(changed, notified)
       IN /\ text' = ed.text
          /\ cursor' = ed.cursor
          /\ _wrapping' = ed.wrapping
    /\ event' = [name |-> name, notified |-> notified,
                 text |-> text, cursor |-> cursor]
    /\ events' = events + 1
    /\ UNCHANGED <<current_folder, current_note_id, title_input, note_list>>

\* an insert that saves the note as well
insert_autosaved(s, notified) ==
    /\ edited("insert", inserted(Editor(text, cursor, _wrapping), s), notified)
    /\ update_note(current_note_id, title_input, text', clock)

insert(s, notified) ==
    /\ edited("insert", inserted(Editor(text, cursor, _wrapping), s), notified)
    /\ UNCHANGED store_vars

delete_left(notified) ==
    /\ cursor # <<0, 0>>
    /\ edited("delete_left", deleted_left(Editor(text, cursor, _wrapping)),
              notified)
    /\ UNCHANGED store_vars

action_new_note ==
    /\ add_note(UNTITLED, <<>>, current_folder, clock, clock)
    /\ refresh_notes(current_folder)
    /\ current_note_id' = ret'.note.id
    /\ text' = ret'.note.content
    /\ cursor' = <<0, 0>>
    /\ title_input' = ""
    /\ UNCHANGED <<current_folder, _wrapping, event, events>>

action_save_note ==
    /\ IF current_note_id # NoId
       THEN /\ update_note(current_note_id, OrUntitled(strip(title_input)),
                           text, clock)
            /\ refresh_notes(current_folder)
       ELSE UNCHANGED <<store_vars, note_list>>
    /\ UNCHANGED <<current_folder, current_note_id, title_input, text,
                   editor_vars>>

\* action_new_folder and check_folder_name; create is the button pressed
action_new_folder(typed, create) ==
    LET folder_name == IF create THEN strip(typed) ELSE "" IN
    /\ IF folder_name # ""
       THEN add_folder(folder_name)
       ELSE UNCHANGED store_vars
    /\ UNCHANGED <<current_folder, current_note_id, title_input, text,
                   note_list, editor_vars>>
    /\ refresh_folders

\* action_delete_note with the folder list focused, and
\* handle_delete_confirmation
action_delete_folder(folder_index, confirmed) ==
    /\ folder_index \in 1..Len(data.folders)
    /\ LET folder_to_delete == data.folders[folder_index] IN
       IF folder_to_delete # ALL_NOTES /\ confirmed
       THEN /\ delete_folder(folder_to_delete)
            /\ IF ret' = Bool(TRUE) /\ current_folder = folder_to_delete
               THEN /\ current_folder' = ALL_NOTES
                    /\ refresh_notes(ALL_NOTES)
                    /\ hide_editor
               ELSE /\ refresh_notes(current_folder)
                    /\ UNCHANGED <<current_folder, current_note_id,
                                   title_input, text, cursor>>
       ELSE UNCHANGED <<store_vars, current_folder, current_note_id,
                        title_input, text, note_list, cursor>>
    /\ UNCHANGED <<_wrapping, event, events>>
    /\ refresh_folders

\* action_delete_note with another panel focused; highlighted is the row
\* of the note list the cursor is on, 0 when it is on no note
action_delete_note(highlighted) ==
    /\ highlighted \in 0..Len(note_list)
    /\ LET note_to_delete ==
               IF current_note_id # NoId THEN current_note_id
               ELSE IF highlighted # 0 THEN note_list[highlighted].id
               ELSE NoId
       IN IF note_to_delete # NoId
          THEN /\ delete_note(note_to_delete)
               /\ refresh_notes(current_folder)
               /\ hide_editor
          ELSE UNCHANGED <<store_vars, current_note_id, title_input, text,
                           note_list, cursor>>
    /\ UNCHANGED <<current_folder, _wrapping, event, events>>

(***************************************************************************)
(* The store driven through its public operations with any arguments; the  *)
(* shell takes no part.  The clock does not advance in this specification: *)
(* every datetime.now() returns the same instant.                          *)
(***************************************************************************)
Next ==
    \/ \E x \in Texts, f \in FolderNames :
          add_note(x[1], x[2], f, clock, clock) /\ UNCHANGED shell_vars
    \/ \E i \in NoteIds, x \in Texts :
          update_note(i, x[1], x[2], clock) /\ UNCHANGED shell_vars
    \/ \E i \in NoteIds : delete_note(i) /\ UNCHANGED shell_vars
    \/ \E f \in FolderNames : get_notes_by_folder(f) /\ UNCHANGED shell_vars
    \/ \E f \in FolderArgs : add_folder(f) /\ UNCHANGED shell_vars
    \/ \E f \in FolderNames : delete_folder(f) /\ UNCHANGED shell_vars

Spec == Init /\ [][Next]_vars

(***************************************************************************)
(* The store across sessions: a later NoteData() reads the file the        *)
(* earlier one left.                                                       *)
(***************************************************************************)
\* NoteData.__init__: self.data = self.load()
restart ==
    /\ data' = load(file)
    /\ op' = [name |-> "load"]
    /\ ret' = None
    /\ wrote' = FALSE
    /\ assigned' = {}
    /\ UNCHANGED <<file, clock>>

\* the notes of these sessions go to one folder, which is deleted and added
\* again
PersistNext ==
    \/ \E x \in Texts :
          add_note(x[1], x[2], WORK, clock, clock) /\ UNCHANGED shell_vars
    \/ \E i \in NoteIds, x \in Texts :
          update_note(i, x[1], x[2], clock) /\ UNCHANGED shell_vars
    \/ \E i \in NoteIds : delete_note(i) /\ UNCHANGED shell_vars
    \/ add_folder(WORK) /\ UNCHANGED shell_vars
    \/ delete_folder(WORK) /\ UNCHANGED shell_vars
    \/ restart /\ UNCHANGED shell_vars

PersistSpec == Init /\ [][PersistNext]_vars

(***************************************************************************)
(* The store with a clock that may advance between any two readings.       *)
(***************************************************************************)
\* the readings datetime.now() may return from now on
Readings(from) == from..MaxClock

TimedNext ==
    \/ \E x \in Texts, t1 \in Readings(clock) : \E t2 \in Readings(t1) :
          add_note(x[1], x[2], PERSONAL, t1, t2) /\ UNCHANGED shell_vars
    \/ \E i \in NoteIds, x \in Texts, t \in Readings(clock) :
          update_note(i, x[1], x[2], t) /\ UNCHANGED shell_vars

TimedSpec == Init /\ [][TimedNext]_vars

(***************************************************************************)
(* The password manager alone: any sequence of calls of its methods.       *)
(***************************************************************************)
AuthNext ==
    \/ \E p \in Passwords :
          /\ set_password(p)
          /\ UNCHANGED <<store_vars, screen, error_message, folder_list>>
          /\ UNCHANGED <<current_folder, current_note_id, title_input, text>>
          /\ UNCHANGED <<note_list, editor_vars>>
    \/ /\ skip_password
       /\ UNCHANGED <<store_vars, screen, error_message, folder_list>>
       /\ UNCHANGED <<current_folder, current_note_id, title_input, text>>
       /\ UNCHANGED <<note_list, editor_vars>>
    \/ \E p \in Passwords :
          /\ ask("verify_password", p, verify_password(p))
          /\ UNCHANGED <<store_vars, screen, error_message, folder_list>>
          /\ UNCHANGED <<current_folder, current_note_id, title_input, text>>
          /\ UNCHANGED <<note_list, editor_vars>>
    \/ /\ ask("is_password_enabled", "", is_password_enabled)
       /\ UNCHANGED <<store_vars, screen, error_message, folder_list>>
       /\ UNCHANGED <<current_folder, current_note_id, title_input, text>>
       /\ UNCHANGED <<note_list, editor_vars>>
    \/ /\ ask("password_exists", "", password_exists)
       /\ UNCHANGED <<store_vars, screen, error_message, folder_list>>
       /\ UNCHANGED <<current_folder, current_note_id, title_input, text>>
       /\ UNCHANGED <<note_list, editor_vars>>

AuthSpec == Init /\ [][AuthNext]_vars

(***************************************************************************)
(* The editor holding any text of a family of lines about MAX_LINE_LENGTH  *)
(* long, the cursor anywhere of interest, and handling change              *)
(* notifications.                                                          *)
(***************************************************************************)
Repeat(ch, n) == [i \in 1..n |-> ch]

\* the lengths of the first and of the second word of a line
FirstWords == {0, 1} \cup ((MAX_LINE_LENGTH - 2)..(MAX_LINE_LENGTH + MaxExtra))
SecondWords == (0..MaxExtra) \cup {MAX_LINE_LENGTH + 1}
\* what stands between the two words
Gaps == {<<>>, <<" ">>, <<" ", " ">>, <<"\t", " ">>}

\* what a line starts with: nothing, or a short word and a space
Leads == {<<>>, <<"c", " ">>}

\* a line: a word, a gap, a word
WordGapWord(i, gap, j) == Repeat("a", i) \o gap \o Repeat("b", j)

\* the lines <<above, below>> the line: none, a short line on either side,
\* an overlong line above
Contexts == {<< <<>>, <<>> >>,
             << <<Repeat("x", 1)>>, <<Repeat("y", 1)>> >>,
             << <<Repeat("x", MAX_LINE_LENGTH + 1)>>, <<>> >>}

\* the columns of interest of a line whose first word starts at column k
Columns(k, i, gap, j) ==
    {c \in {0, k + i, k + i + 1, k + i + Len(gap), MAX_LINE_LENGTH - 1,
            MAX_LINE_LENGTH, MAX_LINE_LENGTH + 1, k + i + Len(gap) + j} :
        c <= k + i + Len(gap) + j}

ReflowInit ==
    /\ file = [exists |-> FALSE]
    /\ data = load(file)
    /\ clock = 0
    /\ op = [name |-> "init"]
    /\ ret = None
    /\ wrote = FALSE
    /\ assigned = {}
    /\ current_folder = ALL_NOTES
    /\ current_note_id = NoId
    /\ title_input = ""
    /\ note_list = <<>>
    /\ _wrapping = FALSE
    /\ event = [name |-> "none"]
    /\ events = 0
    /\ NoGate
    /\ \E lead \in Leads, i \in FirstWords, gap \in Gaps, j \in SecondWords,
          context \in Contexts :
          LET above == context[1]
              below == context[2]
          IN /\ text = join(above \o <<lead \o WordGapWord(i, gap, j)>>
                                  \o below)
             /\ \/ \E c \in Columns(Len(lead), i, gap, j) :
                      cursor = <<Len(above), c>>
                \/ Len(above) > 0 /\ cursor = <<0, 0>>

ReflowNext ==
    \E notified \in BOOLEAN :
        on_text_area_changed(notified) /\ UNCHANGED <<gate_vars, folder_list>>

ReflowSpec == ReflowInit /\ [][ReflowNext]_vars

(***************************************************************************)
(* A session of editing: the store holds one note, which the user opens,   *)
(* edits and saves.                                                        *)
(***************************************************************************)
\* what the user types or pastes at once
Pastes == {<<"a">>, Repeat("a", MAX_LINE_LENGTH),
           Repeat("a", MAX_LINE_LENGTH + 1) \o <<"\n", "b">>}

EditInit ==
    /\ data = [DefaultData EXCEPT !.notes =
                  <<[id |-> 1, title |-> "T", content |-> <<"c">>,
                     folder |-> PERSONAL, created |-> 0, modified |-> 0]>>]
    /\ file = save(data)
    /\ clock = 0
    /\ op = [name |-> "init"]
    /\ ret = None
    /\ wrote = FALSE
    /\ assigned = {}
    /\ current_folder = ALL_NOTES
    /\ current_note_id = NoId
    /\ title_input = ""
    /\ text = <<>>
    /\ note_list = Reverse(notes_by_folder(data.notes, current_folder))
    /\ cursor = <<0, 0>>
    /\ _wrapping = FALSE
    /\ event = [name |-> "none"]
    /\ events = 0
    /\ NoGate

EditNext ==
    \/ \E k \in 1..Len(note_list), notified \in BOOLEAN :
          select_note(k, notified) /\ UNCHANGED <<gate_vars, folder_list>>
    \/ \E s \in Pastes, notified \in BOOLEAN :
          insert(s, notified) /\ UNCHANGED <<gate_vars, folder_list>>
    \/ \E notified \in BOOLEAN :
          delete_left(notified) /\ UNCHANGED <<gate_vars, folder_list>>
    \/ edit_title(" ") /\ UNCHANGED <<gate_vars, folder_list>>
    \/ action_save_note /\ UNCHANGED <<gate_vars, folder_list>>

EditSpec == EditInit /\ [][EditNext]_vars

(***************************************************************************)
(* The store driven by the user through the shell.                         *)
(***************************************************************************)
ShellNext ==
    \/ \E i \in 1..Len(data.folders) :
          select_folder(i) /\ UNCHANGED <<gate_vars, folder_list>>
    \/ \E k \in 1..Len(note_list), notified \in BOOLEAN :
          select_note(k, notified) /\ UNCHANGED <<gate_vars, folder_list>>
    \/ \E t \in TitleInputs : edit_title(t) /\ UNCHANGED <<gate_vars, folder_list>>
    \/ \E c \in Contents : edit_text(c) /\ UNCHANGED <<gate_vars, folder_list>>
    \/ action_new_note /\ UNCHANGED <<gate_vars, folder_list>>
    \/ action_save_note /\ UNCHANGED <<gate_vars, folder_list>>
    \/ \E n \in FolderInputs, b \in BOOLEAN :
          action_new_folder(n, b) /\ UNCHANGED gate_vars
    \/ \E i \in 1..Len(data.folders), b \in BOOLEAN :
          action_delete_folder(i, b) /\ UNCHANGED gate_vars
    \/ \E k \in 0..Len(note_list) :
          action_delete_note(k) /\ UNCHANGED <<gate_vars, folder_list>>

ShellSpec == Init /\ [][ShellNext]_vars

(***************************************************************************)
(* The application from its construction: the store an earlier session     *)
(* left, the password file an earlier set_password or skip_password left,  *)
(* the mount, the PasswordScreen and the handlers behind it.               *)
(***************************************************************************)
\* a store with a folder and a note the user made
Stored ==
    [folders |-> <<ALL_NOTES, PERSONAL, WORK, "Diary">>,
     notes |-> << [id |-> 1, title |-> "T", content |-> <<"c">>,
                   folder |-> "Diary", created |-> 0, modified |-> 0] >>]

\* NotesApp.__init__ has run, nothing is mounted
GateInit ==
    /\ file \in {[exists |-> FALSE], save(Stored)}
    /\ data = load(file)
    /\ clock = 0
    /\ op = [name |-> "init"]
    /\ ret = None
    /\ wrote = FALSE
    /\ assigned = {}
    /\ current_folder = ALL_NOTES
    /\ current_note_id = NoId
    /\ title_input = ""
    /\ text = <<>>
    /\ note_list = <<>>
    /\ cursor = <<0, 0>>
    /\ _wrapping = FALSE
    /\ event = [name |-> "none"]
    /\ events = 0
    /\ \/ auth = [exists |-> FALSE] /\ passphrase = <<>>
       \/ auth = without_password /\ passphrase = <<>>
       \/ auth = with_password("a") /\ passphrase = <<"a">>
    /\ pm = [name |-> "none"]
    /\ screen = "mounting"
    /\ folder_list = <<>>
    /\ error_message = ""

\* FolderList.on_mount, then NotesApp.on_mount
on_mount ==
    /\ screen = "mounting"
    /\ UNCHANGED <<store_vars, auth, passphrase, error_message>>
    /\ UNCHANGED <<current_folder, current_note_id, title_input, text>>
    /\ UNCHANGED editor_vars
    /\ folder_list' = data.folders
    /\ pm' = [name |-> "is_password_enabled", password |-> "",
              ret |-> is_password_enabled]
    /\ IF is_password_enabled
       THEN screen' = "password" /\ UNCHANGED note_list
       ELSE screen' = "main" /\ refresh_notes(current_folder)

\* handle_password_result, the callback of the PasswordScreen
handle_password_result(authenticated) ==
    IF authenticated
    THEN screen' = "main" /\ refresh_notes(current_folder)
    ELSE screen' = "exited" /\ UNCHANGED note_list

\* PasswordScreen: the Unlock button or Enter in the input
submit(password) ==
    /\ screen = "password"
    /\ UNCHANGED <<store_vars, auth, passphrase, folder_list>>
    /\ UNCHANGED <<current_folder, current_note_id, title_input, text>>
    /\ UNCHANGED editor_vars
    /\ IF password = ""
       THEN /\ error_message' = "Password cannot be empty"
            /\ UNCHANGED <<pm, screen, note_list>>
       ELSE /\ pm' = [name |-> "verify_password", password |-> password,
                      ret |-> verify_password(password)]
            /\ IF verify_password(password)
               THEN /\ handle_password_result(TRUE)
                    /\ UNCHANGED error_message
               ELSE /\ error_message' = "Incorrect password"
                    /\ UNCHANGED <<screen, note_list>>

\* PasswordScreen: the Exit button
exit_pressed ==
    /\ screen = "password"
    /\ handle_password_result(FALSE)
    /\ UNCHANGED <<store_vars, auth, pm, passphrase, folder_list>>
    /\ UNCHANGED <<current_folder, current_note_id, title_input, text>>
    /\ UNCHANGED <<editor_vars, error_message>>

\* ctrl+q, a binding of NotesApp: the modal PasswordScreen does not pass it on
action_quit ==
    /\ screen = "main"
    /\ screen' = "exited"
    /\ UNCHANGED <<store_vars, auth, pm, passphrase, folder_list>>
    /\ UNCHANGED <<current_folder, current_note_id, title_input, text>>
    /\ UNCHANGED <<note_list, editor_vars, error_message>>

\* the handlers of the panels run once the panels have the focus
GateNext ==
    \/ on_mount
    \/ \E p \in Passwords : submit(p)
    \/ exit_pressed
    \/ action_quit
    \/ /\ screen = "main"
       /\ \E i \in 1..Len(data.folders) : select_folder(i)
       /\ UNCHANGED <<gate_vars, folder_list>>
    \/ /\ screen = "main"
       /\ \E k \in 1..Len(note_list), notified \in BOOLEAN :
             select_note(k, notified)
       /\ UNCHANGED <<gate_vars, folder_list>>
    \/ /\ screen = "main"
       /\ action_new_note
       /\ UNCHANGED <<gate_vars, folder_list>>

GateSpec == GateInit /\ [][GateNext]_vars

(***************************************************************************)
(* Properties of the store.                                                *)
(***************************************************************************)
\* C1: no two notes of the store have the same id, and every id add_note
\* assigns is greater than every id it assigned earlier in the session.
C1_UniqueMonotonicIds ==
    /\ [](\A i, j \in 1..Len(data.notes) :
            i # j => data.notes[i].id # data.notes[j].id)
    /\ [][op'.name = "add_note" =>
            \A earlier \in assigned : ret'.note.id > earlier]_vars

\* the folder of a note is the virtual name or a name of the folder sequence
folder_known(note) == note.folder = ALL_NOTES \/ In(note.folder, data.folders)

\* C2: in every reachable state every note's folder is "All Notes" or a
\* name present in the folder sequence.
C2_FoldersOfNotesExist ==
    \A i \in 1..Len(data.notes) : folder_known(data.notes[i])

\* what the store holds and what is on disk are as they were
store_unchanged == data' = data /\ file' = file

\* C3: "All Notes" is in the folder sequence in every reachable state, and
\* delete_folder("All Notes") returns false, writes nothing and leaves the
\* folder sequence, the notes and the persisted file as they were.
C3_AllNotesAlwaysPresent ==
    /\ [](\E i \in 1..Len(data.folders) : data.folders[i] = ALL_NOTES)
    /\ [][op'.name = "delete_folder" /\ op'.folder = ALL_NOTES =>
            ret' = Bool(FALSE) /\ ~wrote' /\ store_unchanged]_vars

\* delete_folder("All Notes") has been refused on a store that holds a note
C3_Witness ==
    /\ op.name = "delete_folder"
    /\ op.folder = ALL_NOTES
    /\ ret = Bool(FALSE)
    /\ Len(data.notes) > 0
    /\ In(ALL_NOTES, data.folders)

\* what delete_folder(F) is to leave of a store that held F: the notes of F
\* in "Personal", the others as they were, F gone and the other folders in
\* their order
folder_deleted(F) ==
    /\ ret' = Bool(TRUE)
    /\ Len(data'.notes) = Len(data.notes)
    /\ \A i \in 1..Len(data.notes) :
          /\ data.notes[i].folder = F => data'.notes[i].folder = PERSONAL
          /\ data.notes[i].folder # F =>
                data'.notes[i].folder = data.notes[i].folder
          /\ [data'.notes[i] EXCEPT !.folder = ""] =
                [data.notes[i] EXCEPT !.folder = ""]
    /\ \A i \in 1..Len(data'.folders) : data'.folders[i] # F
    /\ data'.folders = SelectSeq(data.folders, LAMBDA x : x # F)

C5_PersonalAlwaysPresent == In(PERSONAL, data.folders)

\* C6: through the shell's operations no note is ever assigned to the
\* virtual folder: every note's folder is a name other than "All Notes".
C6_NoNoteInVirtualFolder ==
    \A i \in 1..Len(data.notes) : data.notes[i].folder # ALL_NOTES

\* C7: add_folder(name) returns false and changes nothing when name is empty
\* or already in the folder sequence; otherwise it appends name at the end,
\* persists and returns true.  The folder sequence never holds a name twice.
C7_AddFolder ==
    /\ [][op'.name = "add_folder" =>
            IF op'.folder = "" \/ (\E i \in 1..Len(data.folders) :
                                      data.folders[i] = op'.folder)
            THEN ret' = Bool(FALSE) /\ ~wrote' /\ store_unchanged
            ELSE /\ ret' = Bool(TRUE)
                 /\ data'.folders = data.folders \o <<op'.folder>>
                 /\ data'.notes = data.notes
                 /\ wrote'
                 /\ file'.exists
                 /\ load(file') = data']_vars
    /\ [](\A i, j \in 1..Len(data.folders) :
            i # j => data.folders[i] # data.folders[j])

\* add_folder has refused a name that is in the sequence, "Personal", which
\* an earlier add_folder appended at the end after it had been deleted
C7_Witness ==
    /\ op.name = "add_folder"
    /\ op.folder = PERSONAL
    /\ ret = Bool(FALSE)
    /\ data.folders = <<ALL_NOTES, WORK, PERSONAL>>

\* C8: update_note with an id no note has returns None, writes nothing and
\* leaves the notes, the folder sequence and the persisted file unchanged.
C8_UpdateMissingNote ==
    [][(/\ op'.name = "update_note"
        /\ \A i \in 1..Len(data.notes) : data.notes[i].id # op'.note_id) =>
            ret' = None /\ ~wrote' /\ store_unchanged]_vars

\* update_note has been given an id that no note of a non-empty store has
C8_Witness ==
    /\ op.name = "update_note"
    /\ ret = None
    /\ Len(data.notes) > 0
    /\ \A i \in 1..Len(data.notes) : data.notes[i].id # op.note_id

\* C9 as stated: delete_note with an id no note has leaves the notes, the
\* folder sequence and the persisted state the same.
C9_AsStated ==
    [][(/\ op'.name = "delete_note"
        /\ \A i \in 1..Len(data.notes) : data.notes[i].id # op'.note_id) =>
            store_unchanged]_vars

\* C9, amended: delete_note with an id no note has leaves the notes and the
\* folder sequence the same and writes the file, which then holds them: what
\* load() reads is the same as before, but a file that did not exist does now.
C9_DeleteMissingNote ==
    [][(/\ op'.name = "delete_note"
        /\ \A i \in 1..Len(data.notes) : data.notes[i].id # op'.note_id) =>
            /\ data' = data
            /\ wrote'
            /\ file'.exists
            /\ load(file') = data
            /\ load(file') = load(file)]_vars

\* delete_note has been given an id that no note of a non-empty store has
C9_Witness ==
    /\ op.name = "delete_note"
    /\ Len(data.notes) > 0
    /\ \A i \in 1..Len(data.notes) : data.notes[i].id # op.note_id
    /\ file.exists
    /\ load(file) = data

\* the positions of the notes get_notes_by_folder(folder) is to return
positions_in(folder) ==
    {i \in 1..Len(data.notes) :
        folder = ALL_NOTES \/ data.notes[i].folder = folder}

\* s holds the notes at the positions P, in the order of the store
in_insertion_order(s, P) ==
    /\ Len(s) = Cardinality(P)
    /\ \A i \in P : s[Cardinality({j \in P : j <= i})] = data.notes[i]

\* C10: get_notes_by_folder(folder) returns every note, in insertion order,
\* for "All Notes", and otherwise exactly the notes of that folder, in
\* insertion order; right after add_note(t, c, f) the new note is among the
\* notes of f and among those of "All Notes".
C10_NotesByFolder ==
    /\ op.name = "get_notes_by_folder" =>
          in_insertion_order(ret.notes, positions_in(op.folder))
    /\ \A f \in FolderNames :
          in_insertion_order(notes_by_folder(data.notes, f), positions_in(f))
    /\ op.name = "add_note" =>
          /\ In(ret.note, notes_by_folder(data.notes, op.folder))
          /\ In(ret.note, notes_by_folder(data.notes, ALL_NOTES))

\* get_notes_by_folder has returned one of the two notes of the store, the
\* only one of the folder asked for
C10_Witness ==
    /\ op.name = "get_notes_by_folder"
    /\ op.folder # ALL_NOTES
    /\ Len(data.notes) = 2
    /\ Len(ret.notes) = 1
    /\ ret.notes[1] = data.notes[2]

(***************************************************************************)
(* Persistence                                                             *)
(***************************************************************************)
\* C11: every mutating store operation is persisted before it returns: after
\* any sequence of add_note, update_note, delete_note, add_folder and
\* delete_folder, what load() would read from the file equals the folder
\* sequence and the notes held in memory.
C11_PersistedBeforeReturn ==
    /\ load(file).folders = data.folders
    /\ load(file).notes = data.notes

\* delete_note has removed one of two notes of a store whose folder list
\* is no longer the default one, and the file was written
C11_Witness ==
    /\ op.name = "delete_note"
    /\ wrote
    /\ Len(data.notes) = 1
    /\ data.notes[1].id = 2
    /\ data.folders # DefaultData.folders
    /\ file.exists

\* C12: save() followed by load() yields the same folder sequence and the
\* same notes, field for field and in the same order: the document save()
\* would write reads back as the data, and a later session that loads the
\* file finds the data the earlier one held.
C12_SaveLoadRoundTrip ==
    /\ [](/\ load(save(data)).folders = data.folders
          /\ load(save(data)).notes = data.notes
          /\ \A i \in 1..Len(data.notes) :
                LET read == load(save(data)).notes[i] IN
                /\ read.id = data.notes[i].id
                /\ read.title = data.notes[i].title
                /\ read.content = data.notes[i].content
                /\ read.folder = data.notes[i].folder
                /\ read.created = data.notes[i].created
                /\ read.modified = data.notes[i].modified)
    /\ [][op'.name = "load" /\ file.exists => data' = data]_vars

\* a session has loaded a file holding two notes, the second updated, and a
\* folder list that is no longer the default one
C12_Witness ==
    /\ op.name = "load"
    /\ file.exists
    /\ Len(data.notes) = 2
    /\ data.notes[1] # data.notes[2]
    /\ data.folders # DefaultData.folders

(***************************************************************************)
(* Timestamps                                                              *)
(***************************************************************************)
\* C13: the note add_note returns has created equal to modified, the clock
\* being a value that may advance between two readings; every successful
\* update_note sets modified to the current time and leaves id, folder and
\* created of the note unchanged.
C13_Timestamps ==
    [][/\ op'.name = "add_note" =>
             ret'.note.created = ret'.note.modified
       /\ op'.name = "update_note" /\ ret' # None =>
             LET i == first_with_id(data.notes, op'.note_id) IN
             /\ ret'.note = data'.notes[i]
             /\ data'.notes[i].modified = clock'
             /\ data'.notes[i].id = data.notes[i].id
             /\ data'.notes[i].folder = data.notes[i].folder
             /\ data'.notes[i].created = data.notes[i].created]_vars

(***************************************************************************)
(* Reflow                                                                  *)
(***************************************************************************)
\* the line the cursor was on when the last notification was handled, its
\* index, and the lines the handler left
line_found == split(event.text)[event.cursor[1] + 1]
lines_left == split(text)
reflowed == event.name = "on_text_area_changed"
was_split ==
    /\ reflowed
    /\ Len(line_found) > MAX_LINE_LENGTH

\* r is s without the whitespace at its end, at its start
without_trailing(r, s) ==
    /\ Len(r) <= Len(s)
    /\ r = SubSeq(s, 1, Len(r))
    /\ \A k \in (Len(r) + 1)..Len(s) : s[k] \in Whitespace
    /\ Len(r) > 0 => r[Len(r)] \notin Whitespace
without_leading(r, s) ==
    /\ Len(r) <= Len(s)
    /\ r = SubSeq(s, Len(s) - Len(r) + 1, Len(s))
    /\ \A k \in 1..(Len(s) - Len(r)) : s[k] \in Whitespace
    /\ Len(r) > 0 => r[1] \notin Whitespace

\* the line found was split at column p: line[0:p] and line[p:], trimmed,
\* stand where it stood
split_at(p) ==
    LET row == event.cursor[1] IN
    /\ Len(lines_left) = Len(split(event.text)) + 1
    /\ without_trailing(lines_left[row + 1], SubSeq(line_found, 1, p))
    /\ without_leading(lines_left[row + 2],
                       SubSeq(line_found, p + 1, Len(line_found)))

\* the rightmost space of the line found at the columns 0..last, or
\* MAX_LINE_LENGTH when there is none
rightmost_space(last) ==
    LET S == {k \in 0..last : k < Len(line_found) /\ line_found[k + 1] = " "}
    IN IF S = {} THEN MAX_LINE_LENGTH
       ELSE CHOOSE k \in S : \A j \in S : k >= j

\* a line with no whitespace gives MAX_LINE_LENGTH characters and the rest
hard_break ==
    (\A k \in 1..Len(line_found) : line_found[k] \notin Whitespace) =>
        /\ lines_left[event.cursor[1] + 1] =
               SubSeq(line_found, 1, MAX_LINE_LENGTH)
        /\ lines_left[event.cursor[1] + 2] =
               SubSeq(line_found, MAX_LINE_LENGTH + 1, Len(line_found))

\* C14: reflow is idempotent: for every buffer state (lines and cursor) a
\* reflow that follows a reflow changes neither the lines nor the cursor.
C14_ReflowIdempotent ==
    [][/\ event.name = "on_text_area_changed"
       /\ event'.name = "on_text_area_changed"
       => text' = text /\ cursor' = cursor]_vars

\* C15 as stated: a line of the cursor longer than MAX_LINE_LENGTH is split
\* at the rightmost space at or before column MAX_LINE_LENGTH, at column
\* MAX_LINE_LENGTH when there is no space in that range (a line without
\* spaces giving MAX_LINE_LENGTH characters and the rest); a line no longer
\* than MAX_LINE_LENGTH is left unchanged.
C15_AsStated ==
    reflowed =>
        IF Len(line_found) > MAX_LINE_LENGTH
        THEN split_at(rightmost_space(MAX_LINE_LENGTH)) /\ hard_break
        ELSE text = event.text

\* C15: a line of the cursor longer than MAX_LINE_LENGTH is split at the
\* rightmost space before column MAX_LINE_LENGTH (among its first
\* MAX_LINE_LENGTH characters), at column MAX_LINE_LENGTH when there is
\* none; the first line is what stands before the split less its trailing
\* whitespace, the second what stands from the split on less its leading
\* whitespace, so a line without whitespace gives MAX_LINE_LENGTH characters
\* and the rest; a line no longer than MAX_LINE_LENGTH is left unchanged.
C15_WrapPoint ==
    reflowed =>
        IF Len(line_found) > MAX_LINE_LENGTH
        THEN split_at(rightmost_space(MAX_LINE_LENGTH - 1)) /\ hard_break
        ELSE text = event.text

\* a line with a space at column MAX_LINE_LENGTH, and an earlier one with a
\* word between the two, has been split
C15_Witness ==
    /\ was_split
    /\ line_found[MAX_LINE_LENGTH + 1] = " "
    /\ line_found[MAX_LINE_LENGTH] # " "
    /\ rightmost_space(MAX_LINE_LENGTH - 1) < MAX_LINE_LENGTH - 1
    /\ text # event.text

\* C16: after a split the first line has at most MAX_LINE_LENGTH characters
\* and no trailing space, the second has no leading space and stands
\* immediately after the first, the lines above and below where they were.
C16_SplitLines ==
    was_split =>
        LET row == event.cursor[1]
            before == split(event.text)
            first == lines_left[row + 1]
            second == lines_left[row + 2]
        IN /\ Len(lines_left) = Len(before) + 1
           /\ Len(first) <= MAX_LINE_LENGTH
           /\ Len(first) > 0 => first[Len(first)] \notin Whitespace
           /\ Len(second) > 0 => second[1] \notin Whitespace
           /\ \A k \in 1..row : lines_left[k] = before[k]
           /\ \A k \in (row + 2)..Len(before) : lines_left[k + 1] = before[k]

\* a line with whitespace on both sides of its wrap point and a line below
\* it has been split
C16_Witness ==
    /\ was_split
    /\ rightmost_space(MAX_LINE_LENGTH - 1) \in 1..(MAX_LINE_LENGTH - 1)
    /\ line_found[rightmost_space(MAX_LINE_LENGTH - 1)] \in Whitespace
    /\ Len(split(event.text)) > event.cursor[1] + 1
    /\ Len(lines_left[event.cursor[1] + 2]) > 0

\* C17: a split leaves the cursor on the new second line: at the original
\* column less the split point less the number of characters stripped from
\* the start of the second line, floored at 0, if the original column was
\* beyond the split point; at the end of the second line if it was at or
\* before the split point; in both cases within the length of that line.
C17_CursorAfterSplit ==
    was_split =>
        LET row == event.cursor[1]
            original_column == event.cursor[2]
            split_point == rightmost_space(MAX_LINE_LENGTH - 1)
            second == lines_left[row + 2]
            stripped == (Len(line_found) - split_point) - Len(second)
        IN /\ cursor[1] = row + 1
           /\ cursor[2] = IF original_column > split_point
                          THEN Max(0, original_column - split_point - stripped)
                          ELSE Len(second)
           /\ cursor[2] \in 0..Len(second)

\* C19: reflow is re-entrant-safe: the change notification its own
\* load_text raises starts no nested reflow (one handling of a notification
\* splits one line at most, the line the cursor was on), the in-progress flag
\* is false whenever no reflow is executing, and so a later notification is
\* never suppressed: an overlong line of the cursor is split.
C19_ReentrantSafe ==
    /\ ~_wrapping
    /\ reflowed =>
          /\ Len(lines_left) <= Len(split(event.text)) + 1
          /\ \A k \in 1..event.cursor[1] : lines_left[k] = split(event.text)[k]
          /\ Len(line_found) > MAX_LINE_LENGTH => text # event.text

\* a second notification has been handled and has split the line of the
\* cursor, its load_text notifying at once, with the cursor gone home to an
\* overlong first line
C19_Witness ==
    /\ was_split
    /\ events = 2
    /\ event.notified
    /\ event.cursor[1] > 0
    /\ Len(lines_left[1]) > MAX_LINE_LENGTH
    /\ ~_wrapping

(***************************************************************************)
(* Editing                                                                 *)
(***************************************************************************)
\* C18: after every edit (a character typed, a paste, two lines joined, a
\* text loaded) and the reflow that follows it have settled, no line of the
\* buffer other than the line of the cursor is longer than MAX_LINE_LENGTH.
C18_OnlyCursorLineOverlong ==
    current_note_id # NoId =>
        \A k \in 1..Len(lines_left) :
            k # cursor[1] + 1 => Len(lines_left[k]) <= MAX_LINE_LENGTH

\* C20: edits of the text of the editor and of the title field are not
\* visible to the store until the note is saved: every step that changes
\* the text, the cursor or the title (a key, a reflow, a note loaded) leaves
\* the notes and folders of the store and the file as they were.
C20_EditsNotInStore ==
    [][text' # text \/ cursor' # cursor \/ title_input' # title_input
          \/ events' # events
       => data' = data /\ file' = file]_vars

\* a note is open, two keys and a reflow later its text and the title field
\* differ from what the store and the file hold of it
C20_Witness ==
    /\ current_note_id # NoId
    /\ events >= 2
    /\ event.name = "insert"
    /\ Len(lines_left) > 1
    /\ LET note == data.notes[first_with_id(data.notes, current_note_id)]
       IN /\ note.content # text
          /\ note.title # title_input
          /\ load(file).notes = <<note>>

\* C21: after any sequence of set_password and skip_password calls,
\* verify_password answers True for every password when the file says the
\* password is not enabled, False for every password when there is no file,
\* and, when the password is enabled, True for the password of the last
\* set_password and for no other.
C21_Verify ==
    LET answered(p) == IF pm.name = "verify_password" /\ pm.password = p
                       THEN pm.ret ELSE verify_password(p)
    IN \A p \in Passwords :
          /\ ~auth.exists => answered(p) = FALSE
          /\ auth.exists /\ ~json_load(auth.doc).enabled =>
                answered(p) = TRUE
          /\ auth.exists /\ json_load(auth.doc).enabled =>
                (answered(p) = TRUE <=> passphrase = <<p>>)

\* a password set, skipped and set again, and the last one verified
C21_Witness ==
    /\ pm.name = "verify_password"
    /\ pm.ret = TRUE
    /\ passphrase = <<pm.password>>
    /\ auth.exists
    /\ json_load(auth.doc).enabled

\* C22: while the password is enabled and no verify_password has returned
\* True (the PasswordScreen is up), the panels show nothing of the store:
\* the note list is empty and so is the folder list.
C22_NothingShownBeforeVerified ==
    screen = "password" => note_list = <<>> /\ folder_list = <<>>

\* C23: delete_note with the id of a note of the store removes exactly one
\* note: the notes left are the notes before without the one at some
\* position k, which had the id, and none of them has the id.
C23_DeleteOneNote ==
    [][(/\ op'.name = "delete_note"
        /\ \E i \in 1..Len(data.notes) : data.notes[i].id = op'.note_id) =>
            /\ Len(data'.notes) = Len(data.notes) - 1
            /\ \E k \in 1..Len(data.notes) :
                  /\ data.notes[k].id = op'.note_id
                  /\ data'.notes = SubSeq(data.notes, 1, k - 1) \o
                                    SubSeq(data.notes, k + 1, Len(data.notes))
            /\ \A i \in 1..Len(data'.notes) :
                  data'.notes[i].id # op'.note_id]_vars

\* the line of the cursor of an editor
cursor_line(ed) == split(ed.text)[ed.cursor[1] + 1]

\* the editor after successive reflows: they go on while the line of the
\* cursor is longer than MAX_LINE_LENGTH and the last one left it shorter
\* than it found it
RECURSIVE reflows(_)
reflows(ed) ==
    IF Len(cursor_line(ed)) <= MAX_LINE_LENGTH THEN ed
    ELSE LET next == check_and_wrap_current_line(ed, FALSE)
         IN IF Len(cursor_line(next)) < Len(cursor_line(ed))
            THEN reflows(next)
            ELSE next

\* C24: a reflow that splits a line leaves the cursor on a line strictly
\* shorter than the line it split, and a reflow that finds the line of the
\* cursor no longer than MAX_LINE_LENGTH changes nothing; from every state
\* successive reflows, each shortening the line of the cursor, reach a state
\* where that line is no longer than MAX_LINE_LENGTH and a further reflow
\* changes nothing.
C24_ReflowTerminates ==
    LET now == Editor(text, cursor, _wrapping)
        end == reflows(now)
    IN /\ was_split =>
             /\ cursor[1] = event.cursor[1] + 1
             /\ Len(cursor_line(now)) < Len(line_found)
       /\ reflowed /\ ~was_split => text = event.text /\ cursor = event.cursor
       /\ Len(cursor_line(end)) <= MAX_LINE_LENGTH
       /\ check_and_wrap_current_line(end, FALSE) = end

\* a second split (the line above is the MAX_LINE_LENGTH letters the first
\* one left) after which the line of the cursor is short
C24_Witness ==
    /\ was_split
    /\ event.cursor[1] >= 1
    /\ split(event.text)[event.cursor[1]] = Repeat("a", MAX_LINE_LENGTH)
    /\ Len(cursor_line(Editor(text, cursor, _wrapping))) <= MAX_LINE_LENGTH

\* C25: a split changes only the line of the cursor: the lines above and
\* below stand as they stood, in their order, with two lines in its place;
\* the first is a prefix and the second a suffix of the line split, and what
\* lies between them in that line is whitespace only and has the split
\* point in it or at its edge.
C25_LocalAndPreserving ==
    was_split =>
        LET row == event.cursor[1]
            before == split(event.text)
            first == lines_left[row + 1]
            second == lines_left[row + 2]
            p == rightmost_space(MAX_LINE_LENGTH - 1)
            removed == SubSeq(line_found, Len(first) + 1,
                              Len(line_found) - Len(second))
        IN /\ Len(lines_left) = Len(before) + 1
           /\ \A k \in 1..row : lines_left[k] = before[k]
           /\ \A k \in (row + 2)..Len(before) : lines_left[k + 1] = before[k]
           /\ Len(first) + Len(second) <= Len(line_found)
           /\ first \o removed \o second = line_found
           /\ \A k \in 1..Len(removed) : removed[k] \in Whitespace
           /\ Len(first) <= p
           /\ p <= Len(line_found) - Len(second)

\* a line between two others has been split where a tab and a space stood,
\* and both are gone
C25_Witness ==
    /\ was_split
    /\ event.cursor[1] >= 1
    /\ Len(split(event.text)) > event.cursor[1] + 1
    /\ Len(lines_left[event.cursor[1] + 1]) + 2 =
           Len(line_found) - Len(lines_left[event.cursor[1] + 2])
    /\ line_found[Len(lines_left[event.cursor[1] + 1]) + 1] = "\t"
    /\ Len(lines_left[event.cursor[1] + 2]) > 0

====
